---- MODULE Spec2Model ----
(***************************************************************************)
(* Double-entry submission pipeline of PeppiniContable (React front end).  *)
(*                                                                         *)
(* Money is counted in cents: the 0.01 tolerance of the code is 1.         *)
(* A movement line of the entry form is a JavaScript object; the form, the *)
(* payload built by handleSubmitTransaction and the payload kept in        *)
(* alertasContables hold references to the same objects, so movements are  *)
(* kept in a heap (objs) and referred to by object id.                     *)
(* A JavaScript null is the empty sequence, a value v is <<v>>.            *)
(***************************************************************************)
EXTENDS Integers, Sequences, FiniteSets, TLC

VARIABLES
    transactionForm,   \* useState transactionForm: company, concept, movements (object ids)
    objs,              \* heap of movement objects, by object id
    loading,           \* useState loading
    submitData,        \* transactionData held by a running handleSubmitTransaction
    wire,              \* the request that handler is awaiting the answer of
    alertasContables,  \* useState alertasContables (the awaiting-decision dialog)
    forceReqs,         \* bodies of the requests running onConfirm handlers await
    store,             \* transactions persisted by the server
    transactions,      \* useState transactions: the local list (ids, newest first)
    rules,             \* the server's rule store: a set of classification rules
    notification,      \* useState notification (the kind of the last message)
    edits,             \* number of form edits made so far (bounded by MaxEdits)
    editingMovement,   \* useState editingMovement (movement-edit dialog)
    editReqs,          \* movement-edit requests the server has not answered yet
    sequential,        \* the rule store had the edits been handled one after the other
    dialogSent,        \* a force-save request was sent from the dialog now shown
    formData,          \* TransactionForm: useState formData and what the last render saw
    context,           \* AppContext: auth, data, flags and the loads in flight
    hook,              \* useNotification: notification, timeoutRef and pending timers
    transactionList    \* TransactionList: deleteConfirm, its timers and the deletes

\* The components beside the entry form of App.
ui == <<formData, context, hook, transactionList>>

vars == <<transactionForm, objs, loading, submitData, wire, alertasContables,
          forceReqs, store, transactions, rules, notification, edits,
          editingMovement, editReqs, sequential, dialogSent, ui>>

(* ------------------------------ bounds -------------------------------- *)
MaxLines == 3
MaxEdits == 1
MaxTx == 2
MaxForce == 1

(* ----------------------------- input sets ----------------------------- *)
Null == <<>>
Some(v) == <<v>>

AccountInputs == {"", "A2"}
ThirdPartyInputs == {"", "T1"}
CompanyInputs == {"", "C1"}
ConceptInputs == {"", "x"}
AmountInputs == {0, 1}

(* ------------------------------ helpers ------------------------------- *)
Range(s) == {s[i] : i \in DOMAIN s}

Abs(x) == IF x < 0 THEN -x ELSE x

RECURSIVE SumSeq(_)
SumSeq(s) == IF s = <<>> THEN 0 ELSE Head(s) + SumSeq(Tail(s))

\* The smallest object id not in use: a new object never aliases a live one.
FreshOid(used) ==
    CHOOSE n \in 1..(Cardinality(used) + 1) :
        n \notin used /\ \A m \in 1..(n - 1) : m \in used

\* { account: '', third_party: '', debit: 0, credit: 0, description: '' }
EmptyMovement ==
    [account |-> "", third_party |-> "", debit |-> 0, credit |-> 0, fixed |-> FALSE]

\* The movements of a form or payload as values (what JSON.stringify sends).
MovementValues(ids, o) == [i \in 1..Len(ids) |-> o[ids[i]]]

(* ------------------------ balance validation -------------------------- *)
TotalDebit(ms) == SumSeq([i \in 1..Len(ms) |-> ms[i].debit])
TotalCredit(ms) == SumSeq([i \in 1..Len(ms) |-> ms[i].credit])

\* getBalanceStatus: the gate of the submit button.
getBalanceStatus(form, o) ==
    LET ms == MovementValues(form.movements, o)
        difference == Abs(TotalDebit(ms) - TotalCredit(ms))
    IN  [totalDebit |-> TotalDebit(ms), totalCredit |-> TotalCredit(ms),
         isBalanced |-> difference < 1, difference |-> difference]

\* validateTransaction: the checks run by handleSubmitTransaction.
validateTransaction(form, o) ==
    LET ms == MovementValues(form.movements, o)
        emptyFields == \E i \in 1..Len(ms) : ms[i].account = "" \/ ms[i].third_party = ""
    IN  IF Abs(TotalDebit(ms) - TotalCredit(ms)) > 1
        THEN [isValid |-> FALSE, message |-> "noCuadra"]
        ELSE IF Len(ms) < 2
        THEN [isValid |-> FALSE, message |-> "minimo2"]
        ELSE IF emptyFields \/ form.company = "" \/ form.concept = ""
        THEN [isValid |-> FALSE, message |-> "camposObligatorios"]
        ELSE [isValid |-> TRUE, message |-> ""]

\* filteredMovements: the lines that go into the payload (same objects).
filteredMovements(form, o) ==
    SelectSeq(form.movements,
              LAMBDA id : o[id].account # "" /\ o[id].third_party # ""
                          /\ (o[id].debit > 0 \/ o[id].credit > 0))

\* transactionData = { ...transactionForm, movements: filteredMovements }
BuildTransactionData(form, o) ==
    [company |-> form.company, concept |-> form.concept,
     movements |-> filteredMovements(form, o)]

\* The body axios sends: the payload's values at the time of the call.
Serialize(td, o) ==
    [company |-> td.company, concept |-> td.concept,
     movements |-> MovementValues(td.movements, o)]

(* ----------------- rule store (server, from the spec) ------------------ *)
KnownCompanies == {"C1"}
KnownThirdParties == {"T1"}
RuleKeys == KnownCompanies \X KnownThirdParties

\* Averages are exact: a fraction of cents in lowest terms, den > 0.
RECURSIVE GCD(_, _)
GCD(a, b) == IF b = 0 THEN a ELSE GCD(b, a % b)

Rat(n, d) ==
    LET g == GCD(Abs(n), d) IN [num |-> n \div g, den |-> d \div g]

FromCents(n) == Rat(n, 1)

\* The money value (whole cents) nearest to an average.
RoundToCents(q) == (2 * q.num + q.den) \div (2 * q.den)

\* ClassificationRule, keyed by (company, third party).
Rule(company, thirdParty, acc, conf, avg) ==
    [company |-> company, third_party |-> thirdParty, account |-> acc,
     confidence |-> conf, average |-> avg, createdByUser |-> TRUE]

RulesOf(rs, company, thirdParty) ==
    {r \in rs : r.company = company /\ r.third_party = thirdParty}

\* getRule(companyId, thirdPartyId) -> ClassificationRule | null
RuleFor(rs, company, thirdParty) ==
    IF RulesOf(rs, company, thirdParty) = {} THEN Null
    ELSE Some(CHOOSE r \in RulesOf(rs, company, thirdParty) : TRUE)

(* ----------------- anomaly detector (server, from the spec) ----------- *)
\* A movement is a pure debit or a pure credit: its amount is the side in use.
Amount(m) == IF m.debit > 0 THEN m.debit ELSE m.credit

\* A detector that compares with an average of zero as with any other.
DeviatesFromAny(amount, average) ==
    \/ 2 * amount * average.den < average.num
    \/ amount * average.den > 2 * average.num

\* Less than half or more than double a nonzero average.
AmountDeviates(amount, average) ==
    /\ average.num # 0
    /\ \/ 2 * amount * average.den < average.num
       \/ amount * average.den > 2 * average.num

\* A detector that looks at the amount first and at the account second.
AmountFirst(company, m, rs) ==
    LET r == RuleFor(rs, company, m.third_party)
    IN  IF r = Null THEN "none"
        ELSE IF AmountDeviates(Amount(m), r[1].average) THEN "AmountAnomaly"
        ELSE IF m.account # r[1].account THEN "AccountMismatch"
        ELSE "none"

\* What the detector finds on one movement: "none", "AccountMismatch" or "AmountAnomaly".
DetectKind(company, m, rs) ==
    LET r == RuleFor(rs, company, m.third_party)
    IN  IF r = Null THEN "none"
        ELSE IF m.account # r[1].account THEN "AccountMismatch"
        ELSE IF AmountDeviates(Amount(m), r[1].average) THEN "AmountAnomaly"
        ELSE "none"

\* The correction of movement i (movement_index counts from 0): the rule-implied
\* account and amount, on the side of the line the movement already uses.
CorrectionOf(company, m, i, rs) ==
    LET r == RuleFor(rs, company, m.third_party)[1]
        amount == IF DetectKind(company, m, rs) = "AmountAnomaly"
                  THEN RoundToCents(r.average) ELSE Amount(m)
    IN  [movement_index |-> i - 1,
         cuenta_sugerida |-> r.account,
         debito_corregido |-> IF m.debit > 0 THEN amount ELSE 0,
         credito_corregido |-> IF m.debit > 0 THEN 0 ELSE amount]

\* detect(companyId, movements, rules): alerts and the correction plan.
detect(company, ms, rs) ==
    LET flagged == {i \in 1..Len(ms) : DetectKind(company, ms[i], rs) # "none"}
    IN  [alertas |-> {[movement_index |-> i - 1,
                       kind |-> DetectKind(company, ms[i], rs)] : i \in flagged},
         sugerencias |-> {[movement_index |-> i - 1,
                           cuenta_sugerida |-> RuleFor(rs, company, ms[i].third_party)[1].account]
                          : i \in flagged},
         correcciones |-> {CorrectionOf(company, ms[i], i, rs) : i \in flagged}]

(* ----------------------- the other components, at rest ---------------- *)
\* TransactionForm as constructed: two empty lines, rendered.
FormDataAtRest == [movements |-> <<1, 2>>, rendered |-> <<1, 2>>, next |-> 3]

\* AppProvider as constructed, with no token in localStorage.
ContextAtRest ==
    [isAuthenticated |-> FALSE, initialDataLoaded |-> FALSE, loadingRef |-> FALSE,
     companies |-> Null, selectedCompany |-> Null, transactions |-> Null,
     session |-> 0, batches |-> <<>>, loads |-> <<>>, failed |-> FALSE,
     succeeded |-> FALSE]

\* useNotification as constructed.
HookAtRest ==
    [notification |-> Null, timeoutRef |-> Null, timers |-> {}, shown |-> 0,
     cancelled |-> 0]

\* TransactionList as constructed.
ListAtRest ==
    [deleteConfirm |-> Null, timers |-> {}, armed |-> 0, deletes |-> <<>>,
     listed |-> {1, 2}]

(* ------------------------------ initial state ------------------------- *)
DebitLine == [EmptyMovement EXCEPT !.account = "A1", !.third_party = "T1", !.debit = 1]
CreditLine == [EmptyMovement EXCEPT !.account = "A1", !.third_party = "T1", !.credit = 1]
ZeroLine == [EmptyMovement EXCEPT !.account = "A1", !.third_party = "T1"]

\* Lines a user has typed into the entry form before the run starts, and the
\* number of lines of that form.
LineKinds == {ZeroLine, DebitLine, CreditLine}
InitLengths == {2, 3}

\* Rule stores the server may hold: no rule, or a rule on the account the
\* prepared lines use, with a higher average.
RuleStores == {{}, {Rule("C1", "T1", "A1", 1, FromCents(3))}}

\* A transaction persisted in an earlier session.
PriorTransaction ==
    [company |-> "C1", concept |-> "x", movements |-> <<DebitLine, CreditLine>>]

PriorStores == {<<>>, <<PriorTransaction>>}

\* The form as constructed and as reset after a save (two empty lines).
EmptyForm(ids) == [company |-> "", concept |-> "", movements |-> ids]

TypeOK ==
    /\ Len(transactionForm.movements) >= 1
    /\ Range(transactionForm.movements) \subseteq DOMAIN objs
    /\ loading \in BOOLEAN
    /\ edits \in 0..MaxEdits
    /\ Len(store) <= MaxTx

Init ==
    /\ \E n \in InitLengths : \E ls \in [1..n -> LineKinds] :
          /\ objs = ls
          /\ transactionForm = [company |-> "C1", concept |-> "x",
                                movements |-> [i \in 1..n |-> i]]
    /\ loading = FALSE
    /\ submitData = Null
    /\ wire = Null
    /\ alertasContables = Null
    /\ forceReqs = <<>>
    /\ store \in PriorStores
    /\ transactions = [i \in 1..Len(store) |-> Len(store) + 1 - i]
    /\ rules \in RuleStores
    /\ notification = "none"
    /\ edits = 0
    /\ editingMovement = Null
    /\ editReqs = <<>>
    /\ sequential = rules
    /\ dialogSent = FALSE
    /\ formData = FormDataAtRest
    /\ context = ContextAtRest
    /\ hook = HookAtRest
    /\ transactionList = ListAtRest

(* ------------------------- the heap of movements ---------------------- *)
HeldIds(holder) == IF holder = Null THEN {} ELSE Range(holder[1].movements)

\* Object ids still referenced by the form, a running submit handler or the dialog.
LiveIds(form, sd, al) ==
    Range(form.movements) \cup HeldIds(sd)
    \cup (IF al = Null THEN {} ELSE Range(al[1].transactionData.movements))

Collect(o, live) == [id \in live |-> o[id]]

\* Two new empty lines, on ids nobody else holds.
NewLineIds(keep) ==
    LET a == FreshOid(keep) IN <<a, FreshOid(keep \cup {a})>>

WithNewLines(o, ids) ==
    [id \in DOMAIN o \cup Range(ids) |-> IF id \in Range(ids) THEN EmptyMovement ELSE o[id]]

(* ----------------------- entry form: field edits ---------------------- *)
\* The awaiting-decision dialog covers the page: the form is edited only
\* while it is closed. Requests in flight do not disable the inputs.
FormReachable == alertasContables = Null

\* handleMovementChange(index, field, value): the movement object is changed in place.
ChangedMovement(m, field, value) ==
    IF field \in {"debit", "credit"}
    THEN LET cleared == IF field = "debit" /\ value > 0 THEN [m EXCEPT !.credit = 0]
                        ELSE IF field = "credit" /\ value > 0 THEN [m EXCEPT !.debit = 0]
                        ELSE m
         IN  [cleared EXCEPT ![field] = value]
    ELSE [m EXCEPT ![field] = value]

handleMovementChange(i, field, value) ==
    /\ FormReachable
    /\ edits < MaxEdits
    /\ i \in 1..Len(transactionForm.movements)
    /\ objs' = [objs EXCEPT ![transactionForm.movements[i]] =
                    ChangedMovement(objs[transactionForm.movements[i]], field, value)]
    /\ edits' = edits + 1
    /\ UNCHANGED <<transactionForm, loading, submitData, wire, alertasContables,
                   forceReqs, store, transactions, rules, notification, editingMovement>>
    /\ UNCHANGED <<editReqs, sequential, dialogSent, ui>>

\* onChange of the company select and of the concept input.
handleHeaderChange(field, value) ==
    /\ FormReachable
    /\ edits < MaxEdits
    /\ transactionForm' = [transactionForm EXCEPT ![field] = value]
    /\ edits' = edits + 1
    /\ UNCHANGED <<objs, loading, submitData, wire, alertasContables, forceReqs,
                   store, transactions, rules, notification, editingMovement>>
    /\ UNCHANGED <<editReqs, sequential, dialogSent, ui>>

addMovement ==
    /\ FormReachable
    /\ edits < MaxEdits
    /\ Len(transactionForm.movements) < MaxLines
    /\ LET id == FreshOid(DOMAIN objs)
       IN  /\ transactionForm' = [transactionForm EXCEPT
                                     !.movements = Append(@, id)]
           /\ objs' = [x \in DOMAIN objs \cup {id} |->
                          IF x = id THEN EmptyMovement ELSE objs[x]]
    /\ edits' = edits + 1
    /\ UNCHANGED <<loading, submitData, wire, alertasContables, forceReqs, store,
                   transactions, rules, notification, editingMovement>>
    /\ UNCHANGED <<editReqs, sequential, dialogSent, ui>>

RemoveAt(s, i) == [j \in 1..(Len(s) - 1) |-> IF j < i THEN s[j] ELSE s[j + 1]]

removeMovement(i) ==
    /\ FormReachable
    /\ edits < MaxEdits
    /\ i \in 1..Len(transactionForm.movements)
    /\ Len(transactionForm.movements) > 2
    /\ transactionForm' = [transactionForm EXCEPT !.movements = RemoveAt(@, i)]
    /\ objs' = Collect(objs, LiveIds(transactionForm', submitData, alertasContables))
    /\ edits' = edits + 1
    /\ UNCHANGED <<loading, submitData, wire, alertasContables, forceReqs, store,
                   transactions, rules, notification, editingMovement>>
    /\ UNCHANGED <<editReqs, sequential, dialogSent, ui>>

(* ---------------------- handleSubmitTransaction ----------------------- *)
\* The submit button is disabled while loading or while the form is unbalanced.
SubmitEnabled ==
    /\ FormReachable
    /\ ~loading
    /\ getBalanceStatus(transactionForm, objs).isBalanced

\* A handler without the early return on a failed validation.
RejectsNothing(validation) == FALSE

\* if (!validation.isValid) { showNotification(...); return; }
Rejects(validation) == ~validation.isValid

\* A catch block that logs the error and shows nothing.
Swallowed(shown) == shown

\* catch (error) { console.error(...); showNotification('Error al crear transacción', 'error') }
Reported(shown) == "error"

\* Up to the first await: validate, build the payload, send the validate request.
handleSubmitTransaction ==
    /\ SubmitEnabled
    /\ wire = Null
    /\ LET validation == validateTransaction(transactionForm, objs)
           td == BuildTransactionData(transactionForm, objs)
       IN  IF Rejects(validation)
           THEN /\ notification' = validation.message
                /\ UNCHANGED <<loading, submitData, wire>>
           ELSE /\ loading' = TRUE
                /\ submitData' = Some(td)
                /\ wire' = Some([kind |-> "validate", body |-> Serialize(td, objs)])
                /\ UNCHANGED notification
    /\ UNCHANGED <<transactionForm, objs, alertasContables, forceReqs, store,
                   transactions, rules, edits, editingMovement>>
    /\ UNCHANGED <<editReqs, sequential, dialogSent, ui>>

\* A handler that opens the dialog on every validate response.
SeesAlertsAlways(data) == TRUE

\* A handler that does not look at the alerts of the validate response.
SeesNoAlerts(data) == FALSE

\* if (validateResponse.data.alertas && validateResponse.data.alertas.length > 0)
HasAlerts(data) == data.alertas # {}

\* The validate request is answered: POST /api/transactions/validate/ runs the
\* detector on the body it received (lookups only), or the request fails. The
\* handler then stops on alerts, or sends the persist request: the payload object
\* is serialized again, as it is now.
validateResponse(ok) ==
    /\ wire # Null
    /\ wire[1].kind = "validate"
    /\ LET data == detect(wire[1].body.company, wire[1].body.movements, rules)
       IN  IF ~ok
           THEN /\ notification' = Reported(notification)
                /\ loading' = FALSE
                /\ submitData' = Null
                /\ wire' = Null
                /\ UNCHANGED <<alertasContables, dialogSent>>
           ELSE IF HasAlerts(data)
           THEN /\ dialogSent' = FALSE
                /\ alertasContables' =
                       Some([alertas |-> data.alertas,
                             sugerencias |-> data.sugerencias,
                             correcciones |-> data.correcciones,
                             transactionData |-> submitData[1],
                             validated |-> wire[1].body])
                /\ loading' = FALSE
                /\ submitData' = Null
                /\ wire' = Null
                /\ UNCHANGED notification
           ELSE /\ wire' = Some([kind |-> "persist",
                                 body |-> Serialize(submitData[1], objs)])
                /\ UNCHANGED <<loading, submitData, alertasContables, notification,
                               dialogSent>>
    /\ objs' = Collect(objs, LiveIds(transactionForm, submitData', alertasContables'))
    /\ UNCHANGED <<transactionForm, forceReqs, store, transactions, rules, edits,
                   editingMovement>>
    /\ UNCHANGED <<editReqs, sequential, ui>>

\* POST /api/transactions/ on the server: saveTransaction appends one transaction.
saveTransaction(st, body) == Append(st, body)

\* A server that learns from what it saves: a rule is written for the first
\* movement of the transaction.
LearnsOnSave(rs, body) ==
    rs \cup {Rule(body.company, body.movements[1].third_party, body.movements[1].account,
                  1, FromCents(Amount(body.movements[1])))}

\* The Rule Store after saveTransaction: creating a transaction triggers no learning.
RulesAfterSave(rs, body) == rs

\* setTransactionForm({ company: '', ..., movements: [two empty lines] })
ResetForm(keep) == EmptyForm(NewLineIds(keep))

\* A handler that leaves the local list as it was.
DropsTransaction(list, id) == list

\* setTransactions(prev => [response.data, ...prev])
PrependTransaction(list, id) == <<id>> \o list

\* The persist request is answered (the server saved the transaction, or the
\* request failed); the handler then updates the list and resets the form.
persistResponse(ok) ==
    /\ wire # Null
    /\ wire[1].kind = "persist"
    /\ ok => Len(store) < MaxTx
    /\ IF ok
       THEN /\ store' = saveTransaction(store, wire[1].body)
            /\ transactions' = PrependTransaction(transactions, Len(store'))
            /\ notification' = "saved"
            /\ transactionForm' = ResetForm({})
            /\ objs' = Collect(WithNewLines(objs, transactionForm'.movements),
                               Range(transactionForm'.movements))
       ELSE /\ notification' = Reported(notification)
            /\ objs' = Collect(objs, Range(transactionForm.movements))
            /\ UNCHANGED <<store, transactions, transactionForm>>
    /\ rules' = IF ok THEN RulesAfterSave(rules, wire[1].body) ELSE rules
    /\ loading' = FALSE
    /\ submitData' = Null
    /\ wire' = Null
    /\ UNCHANGED <<alertasContables, forceReqs, edits, editingMovement>>
    /\ UNCHANGED <<editReqs, sequential, dialogSent, ui>>

(* --------------------- the awaiting-decision dialog ------------------- *)
\* The correction of the form line at 0-based index, if the plan has one.
CorrectionAt(correcciones, index) ==
    {c \in correcciones : c.movement_index = index}

\* movimientosCorregidos: { ...mov, debit: debito_corregido, credit: credito_corregido }
CorrectedMovement(mov, c) ==
    [mov EXCEPT !.debit = c.debito_corregido, !.credit = c.credito_corregido,
                !.fixed = TRUE]

\* "Corregir Automaticamente": corrections are applied to the form by index.
\* The corrected line is a new object; the dialog closes, so no one else holds
\* the object it replaces and the new one takes its id.
onAutoFix ==
    /\ alertasContables # Null
    /\ objs' = [id \in Range(transactionForm.movements) |->
                  LET index == (CHOOSE i \in 1..Len(transactionForm.movements) :
                                   transactionForm.movements[i] = id) - 1
                      found == CorrectionAt(alertasContables[1].correcciones, index)
                  IN  IF found # {}
                      THEN CorrectedMovement(objs[id], CHOOSE c \in found : TRUE)
                      ELSE objs[id]]
    /\ alertasContables' = Null
    /\ notification' = "corrected"
    /\ UNCHANGED <<transactionForm, loading, submitData, wire, forceReqs, store,
                   transactions, rules, edits, editingMovement>>
    /\ dialogSent' = FALSE
    /\ UNCHANGED <<editReqs, sequential, ui>>

\* "Entiendo, Continuar", up to the await: POST the payload kept in the dialog.
onConfirm ==
    /\ alertasContables # Null
    /\ forceReqs' = Append(forceReqs,
                           Serialize(alertasContables[1].transactionData, objs))
    /\ UNCHANGED <<transactionForm, objs, loading, submitData, wire, alertasContables,
                   store, transactions, rules, notification, edits, editingMovement>>
    /\ dialogSent' = TRUE
    /\ UNCHANGED <<editReqs, sequential, ui>>

\* onConfirm after the await: the request is answered, as in persistResponse.
forceResponse(i, ok) ==
    /\ i \in 1..Len(forceReqs)
    /\ ok => Len(store) < MaxTx
    /\ IF ok
       THEN /\ store' = saveTransaction(store, forceReqs[i])
            /\ transactions' = PrependTransaction(transactions, Len(store'))
            /\ notification' = "savedWithAlerts"
            /\ transactionForm' = ResetForm(HeldIds(submitData))
            /\ alertasContables' = Null
            /\ objs' = Collect(WithNewLines(objs, transactionForm'.movements),
                               LiveIds(transactionForm', submitData, Null))
       ELSE /\ notification' = "error"
            /\ UNCHANGED <<store, transactions, transactionForm, alertasContables, objs>>
    /\ rules' = IF ok THEN RulesAfterSave(rules, forceReqs[i]) ELSE rules
    /\ forceReqs' = RemoveAt(forceReqs, i)
    /\ UNCHANGED <<loading, submitData, wire, edits, editingMovement>>
    /\ dialogSent' = (~ok /\ dialogSent)
    /\ UNCHANGED <<editReqs, sequential, ui>>

\* A discard that also resets the form, as the force-save does.
onCancelResets ==
    /\ alertasContables # Null
    /\ alertasContables' = Null
    /\ notification' = "discarded"
    /\ transactionForm' = ResetForm(HeldIds(submitData))
    /\ objs' = Collect(WithNewLines(objs, transactionForm'.movements),
                       LiveIds(transactionForm', submitData, Null))
    /\ UNCHANGED <<loading, submitData, wire, forceReqs, store, transactions, rules,
                   edits, editingMovement>>
    /\ dialogSent' = FALSE
    /\ UNCHANGED <<editReqs, sequential, ui>>

\* "Eliminar Asiento": close the dialog.
onCancel ==
    /\ alertasContables # Null
    /\ alertasContables' = Null
    /\ notification' = "discarded"
    /\ objs' = Collect(objs, LiveIds(transactionForm, submitData, Null))
    /\ UNCHANGED <<transactionForm, loading, submitData, wire, forceReqs, store,
                   transactions, rules, edits, editingMovement>>
    /\ dialogSent' = FALSE
    /\ UNCHANGED <<editReqs, sequential, ui>>

(* ------------------------ movement-edit dialog ------------------------ *)
EditAccountInputs == {"A1", "A2"}
EditAmountInputs == {0, 1, 2}

\* handleEditMovement(movement): open the dialog on a movement of a listed transaction.
handleEditMovement(t, j) ==
    /\ editingMovement = Null
    /\ alertasContables = Null
    /\ t \in Range(transactions)
    /\ j \in 1..Len(store[t].movements)
    /\ editingMovement' = Some([id |-> <<t, j>>,
                                account |-> store[t].movements[j].account,
                                third_party |-> store[t].movements[j].third_party,
                                debit |-> store[t].movements[j].debit,
                                credit |-> store[t].movements[j].credit])
    /\ UNCHANGED <<transactionForm, objs, loading, submitData, wire, alertasContables,
                   forceReqs, store, transactions, rules, notification, edits>>
    /\ UNCHANGED <<editReqs, sequential, dialogSent, ui>>

\* onChange of a dialog input: setEditingMovement({ ...editingMovement, [field]: value })
editingMovementChange(field, value) ==
    /\ editingMovement # Null
    /\ editingMovement' = Some([editingMovement[1] EXCEPT ![field] = value])
    /\ UNCHANGED <<transactionForm, objs, loading, submitData, wire, alertasContables,
                   forceReqs, store, transactions, rules, notification, edits>>
    /\ UNCHANGED <<editReqs, sequential, dialogSent, ui>>

\* "Cancelar": setEditModalOpen(false); setEditingMovement(null)
cancelEdit ==
    /\ editingMovement # Null
    /\ editingMovement' = Null
    /\ UNCHANGED <<transactionForm, objs, loading, submitData, wire, alertasContables,
                   forceReqs, store, transactions, rules, notification, edits>>
    /\ UNCHANGED <<editReqs, sequential, dialogSent, ui>>

NextEdit ==
    \/ \E t \in 1..MaxTx, j \in 1..MaxLines : handleEditMovement(t, j)
    \/ \E v \in EditAccountInputs : editingMovementChange("account", v)
    \/ \E v \in EditAmountInputs : editingMovementChange("debit", v)
    \/ \E v \in EditAmountInputs : editingMovementChange("credit", v)
    \/ cancelEdit

\* The movement-edit dialog alone, over the transactions already listed.
SpecEdit == Init /\ [][NextEdit]_vars

(* ------------------ learning updater (server, from the spec) ---------- *)
MaxConfidence == 3
MaxInFlight == 2

\* A bug of upsertRule: the rule is added beside the one stored for its key.
insertRule(rs, rule) == rs \cup {rule}

\* upsertRule(rule): the rule takes the place of the one stored for its key.
upsertRule(rs, rule) ==
    (rs \ RulesOf(rs, rule.company, rule.third_party)) \cup {rule}

\* A bug of the mean: the amount is averaged with the old average, whatever
\* the number of confirmations.
HalfwayMean(old, amount, newConfidence) == Rat(old.num + amount * old.den, 2 * old.den)

\* newAverage = oldAverage + (amount - oldAverage) / newConfidence
IncrementalMean(old, amount, newConfidence) ==
    Rat(old.num * newConfidence + (amount * old.den - old.num), old.den * newConfidence)

\* A bug of the override: the new account is taken, the history is kept.
KeepsHistory(rule, accountId, amount) == [rule EXCEPT !.account = accountId]

\* A bug of the override: the edit is not counted as a confirmation.
UncountedOverride(rule, accountId, amount) ==
    [rule EXCEPT !.account = accountId, !.confidence = 0, !.average = FromCents(amount)]

\* The edited account differs from the rule's: account replaced, confidence 1,
\* average the edited amount.
OverriddenRule(rule, accountId, amount) ==
    [rule EXCEPT !.account = accountId, !.confidence = 1, !.average = FromCents(amount)]

\* No rule for the key: account, confidence 1, average the amount, createdByUser.
CreatedRule(company, thirdParty, accountId, amount) ==
    Rule(company, thirdParty, accountId, 1, FromCents(amount))

\* The rule recordConfirmation leaves for the key, given the rule it read.
ConfirmedRule(read, company, thirdParty, accountId, amount) ==
    IF read = Null THEN CreatedRule(company, thirdParty, accountId, amount)
    ELSE IF read[1].account = accountId
    THEN [read[1] EXCEPT !.confidence = @ + 1,
                         !.average = IncrementalMean(@, amount, read[1].confidence + 1)]
    ELSE OverriddenRule(read[1], accountId, amount)

\* A handler that is not atomic: it works on the rule read when the request
\* arrived, whatever was written since.
RuleReadAtArrival(rs, req) == req.seen

\* The read of the read-modify-write, atomic with its write.
RuleRead(rs, req) == RuleFor(rs, req.company, req.third_party)

\* recordConfirmation(companyId, thirdPartyId, accountId, amount)
recordConfirmation(rs, req) ==
    upsertRule(rs, ConfirmedRule(RuleRead(rs, req), req.company, req.third_party,
                                 req.account, Amount(req)))

\* The same, on a store handled by one caller at a time.
recordSequentially(rs, req) ==
    upsertRule(rs, ConfirmedRule(RuleFor(rs, req.company, req.third_party),
                                 req.company, req.third_party, req.account, Amount(req)))

\* updateMovement(movementId, newAccount, newAmounts)
updateMovement(st, req) ==
    [st EXCEPT ![req.id[1]].movements[req.id[2]] =
        [@ EXCEPT !.account = req.account, !.third_party = req.third_party,
                  !.debit = req.debit, !.credit = req.credit]]

\* fetchAllData: the list is loaded again; an empty company of the form is set
\* to the first company.
FetchedTransactions(st) == [i \in 1..Len(st) |-> Len(st) + 1 - i]
FormAfterFetch(form) == IF form.company = "" THEN [form EXCEPT !.company = "C1"] ELSE form

\* The confidence the key of a request would reach if every request in flight
\* confirmed its rule.
ConfidenceAhead(company, thirdParty) ==
    (IF RuleFor(rules, company, thirdParty) = Null THEN 0
     ELSE RuleFor(rules, company, thirdParty)[1].confidence) + Len(editReqs)

EditRequest(session, id, m) ==
    [session |-> session, id |-> id, company |-> store[id[1]].company,
     account |-> m.account, third_party |-> m.third_party,
     debit |-> m.debit, credit |-> m.credit,
     seen |-> RuleFor(rules, store[id[1]].company, m.third_party)]

\* saveMovementEdit up to the await: PUT /api/movements/<id>/edit/
saveMovementEdit ==
    /\ editingMovement # Null
    /\ ~loading
    /\ Len(editReqs) < MaxInFlight
    /\ ConfidenceAhead(store[editingMovement[1].id[1]].company,
                       editingMovement[1].third_party) < MaxConfidence
    /\ editReqs' = Append(editReqs,
                          EditRequest("own", editingMovement[1].id, editingMovement[1]))
    /\ loading' = TRUE
    /\ UNCHANGED <<transactionForm, objs, submitData, wire, alertasContables, forceReqs,
                   store, transactions, rules, notification, edits, editingMovement,
                   sequential, dialogSent, ui>>

\* The same request sent from another session of the application.
otherSessionEdit(t, j, account, amount) ==
    /\ t \in DOMAIN store
    /\ j \in DOMAIN store[t].movements
    /\ Len(editReqs) < MaxInFlight
    /\ ConfidenceAhead(store[t].company, store[t].movements[j].third_party) < MaxConfidence
    /\ editReqs' = Append(editReqs,
                          EditRequest("other", <<t, j>>,
                                      [store[t].movements[j] EXCEPT
                                          !.account = account,
                                          !.debit = IF @ > 0 THEN amount ELSE 0,
                                          !.credit = IF store[t].movements[j].debit > 0
                                                     THEN 0 ELSE amount]))
    /\ UNCHANGED <<transactionForm, objs, loading, submitData, wire, alertasContables,
                   forceReqs, store, transactions, rules, notification, edits,
                   editingMovement, sequential, dialogSent, ui>>

\* The edit request is answered: the server updates the movement and records
\* the confirmation, or the request fails; saveMovementEdit then goes on in the
\* session that sent it.
editResponse(i, ok) ==
    /\ i \in 1..Len(editReqs)
    /\ IF ok
       THEN /\ store' = updateMovement(store, editReqs[i])
            /\ rules' = recordConfirmation(rules, editReqs[i])
            /\ sequential' = recordSequentially(sequential, editReqs[i])
       ELSE UNCHANGED <<store, rules, sequential>>
    /\ IF editReqs[i].session = "own"
       THEN /\ loading' = FALSE
            /\ IF ok
               THEN /\ notification' = "edited"
                    /\ editingMovement' = Null
                    /\ transactions' = FetchedTransactions(store')
                    /\ transactionForm' = FormAfterFetch(transactionForm)
               ELSE /\ notification' = "error"
                    /\ UNCHANGED <<editingMovement, transactions, transactionForm>>
       ELSE UNCHANGED <<loading, notification, editingMovement, transactions,
                        transactionForm>>
    /\ editReqs' = RemoveAt(editReqs, i)
    /\ UNCHANGED <<objs, submitData, wire, alertasContables, forceReqs, edits, dialogSent, ui>>

\* deleteRule(ruleId), confirmed in the browser: the server deletes the rule, or
\* the request fails.
deleteRule(company, thirdParty, ok) ==
    /\ RulesOf(rules, company, thirdParty) # {}
    /\ IF ok
       THEN /\ rules' = rules \ RulesOf(rules, company, thirdParty)
            /\ sequential' = sequential \ RulesOf(sequential, company, thirdParty)
            /\ notification' = "ruleDeleted"
            /\ transactions' = FetchedTransactions(store)
            /\ transactionForm' = FormAfterFetch(transactionForm)
       ELSE /\ notification' = "error"
            /\ UNCHANGED <<rules, sequential, transactions, transactionForm>>
    /\ UNCHANGED <<objs, loading, submitData, wire, alertasContables, forceReqs, store,
                   edits, editingMovement, editReqs, dialogSent, ui>>

\* Rule stores at the start of a learning run: no rule, a rule of the user, a
\* rule the system inferred and the user confirmed once.
RuleStoresLearn ==
    {{}, {Rule("C1", "T1", "A1", 1, FromCents(3))},
     {[Rule("C1", "T1", "A2", 2, Rat(3, 2)) EXCEPT !.createdByUser = FALSE]}}

\* One transaction is persisted and listed; the entry form holds a balanced
\* transaction ready to be submitted.
InitLearn ==
    /\ objs = <<DebitLine, CreditLine>>
    /\ transactionForm = [company |-> "C1", concept |-> "x", movements |-> <<1, 2>>]
    /\ loading = FALSE
    /\ submitData = Null
    /\ wire = Null
    /\ alertasContables = Null
    /\ forceReqs = <<>>
    /\ store = <<PriorTransaction>>
    /\ transactions = FetchedTransactions(store)
    /\ rules \in RuleStoresLearn
    /\ notification = "none"
    /\ edits = 0
    /\ editingMovement = Null
    /\ editReqs = <<>>
    /\ sequential = rules
    /\ dialogSent = FALSE
    /\ formData = FormDataAtRest
    /\ context = ContextAtRest
    /\ hook = HookAtRest
    /\ transactionList = ListAtRest

\* What the user of a learning run does in the dialog: the first movement of
\* the listed transaction is opened, its account and its amount are changed.
LearnAmountInputs == {1, 2}

DialogStep ==
    \/ handleEditMovement(1, 1)
    \/ \E v \in EditAccountInputs : editingMovementChange("account", v)
    \/ \E v \in LearnAmountInputs : editingMovementChange("debit", v)
    \/ cancelEdit

EditStep ==
    \/ saveMovementEdit
    \/ \E i \in 1..MaxInFlight, ok \in BOOLEAN : editResponse(i, ok)

DeleteStep == \E k \in RuleKeys, ok \in BOOLEAN : deleteRule(k[1], k[2], ok)

PipelineStep ==
    \/ handleSubmitTransaction
    \/ \E ok \in BOOLEAN : validateResponse(ok)
    \/ \E ok \in BOOLEAN : persistResponse(ok)
    \/ onAutoFix
    \/ (Len(forceReqs) < MaxForce /\ onConfirm)
    \/ \E i \in 1..MaxForce, ok \in BOOLEAN : forceResponse(i, ok)
    \/ onCancel

NextLearn ==
    \/ DialogStep
    \/ EditStep
    \/ DeleteStep

\* One session edits the listed movement and deletes rules.
SpecLearn == InitLearn /\ [][NextLearn]_vars

\* The dialog of a run beside the pipeline: the account alone is changed.
AccountStep ==
    \/ handleEditMovement(1, 1)
    \/ \E v \in EditAccountInputs : editingMovementChange("account", v)

NextWriters ==
    \/ PipelineStep
    \/ AccountStep
    \/ EditStep
    \/ DeleteStep

\* Movement edits, rule deletions and the submit pipeline, side by side.
SpecWriters == InitLearn /\ [][NextWriters]_vars

\* The other session sets the amount 0.02 on the same movement.
OtherSessionStep ==
    \E a \in EditAccountInputs : otherSessionEdit(1, 1, a, 2)

NextConcurrent ==
    \/ AccountStep
    \/ EditStep
    \/ OtherSessionStep

\* Two sessions edit the same movement.
SpecConcurrent == InitLearn /\ [][NextConcurrent]_vars

(* ------------------------------ pipeline ------------------------------ *)
Next ==
    \/ \E i \in 1..MaxLines :
          \/ \E v \in AmountInputs : handleMovementChange(i, "debit", v)
          \/ \E v \in AmountInputs : handleMovementChange(i, "credit", v)
          \/ \E v \in AccountInputs : handleMovementChange(i, "account", v)
          \/ \E v \in ThirdPartyInputs : handleMovementChange(i, "third_party", v)
    \/ \E v \in CompanyInputs : handleHeaderChange("company", v)
    \/ \E v \in ConceptInputs : handleHeaderChange("concept", v)
    \/ addMovement
    \/ \E i \in 1..MaxLines : removeMovement(i)
    \/ handleSubmitTransaction
    \/ \E ok \in BOOLEAN : validateResponse(ok)
    \/ \E ok \in BOOLEAN : persistResponse(ok)
    \/ onAutoFix
    \/ (Len(forceReqs) < MaxForce /\ onConfirm)
    \/ \E i \in 1..MaxForce, ok \in BOOLEAN : forceResponse(i, ok)
    \/ onCancel

Spec == Init /\ [][Next]_vars

(* ------------------------------ properties ---------------------------- *)
RejectMessages == {"noCuadra", "minimo2", "camposObligatorios"}

FormValues == MovementValues(transactionForm.movements, objs)

Difference(ms) == Abs(TotalDebit(ms) - TotalCredit(ms))

\* The alerts the detector raises on the validate request in flight.
AlertsOnWire == detect(wire[1].body.company, wire[1].body.movements, rules).alertas

\* A step in which the handler receives the answer of its validate request.
ValidateAnswered == wire # Null /\ wire[1].kind = "validate" /\ wire' # wire

\* A step in which the handler receives the answer of its persist request.
PersistAnswered == wire # Null /\ wire[1].kind = "persist" /\ wire' # wire

\* C1: with company and concept filled in, validateTransaction accepts the
\* movements of the form if and only if |sum(debit) - sum(credit)| < 0.01, there
\* are at least 2 movements and every movement has an account and a third
\* party; a difference of exactly 0.01 is rejected.
C1_ValidationAcceptsIff ==
    (transactionForm.company # "" /\ transactionForm.concept # "") =>
        (validateTransaction(transactionForm, objs).isValid <=>
            /\ Difference(FormValues) < 1
            /\ Len(FormValues) >= 2
            /\ \A i \in 1..Len(FormValues) :
                  FormValues[i].account # "" /\ FormValues[i].third_party # "")

\* C2: when the validate step returns alerts the persist request is never
\* issued: the handler stops with the dialog holding the alerts, suggestions and
\* correction plan of that request (or with an error when the request failed),
\* and the store, the local list and the form are left unchanged.
C2_AlertsStopBeforePersist ==
    [][(ValidateAnswered /\ AlertsOnWire # {}) =>
          /\ wire' = Null
          /\ UNCHANGED <<store, transactions, transactionForm, forceReqs>>
          /\ \A id \in Range(transactionForm.movements) : objs'[id] = objs[id]
          /\ \/ notification' = "error" /\ UNCHANGED alertasContables
             \/ /\ alertasContables' # Null
                /\ alertasContables'[1].alertas = AlertsOnWire
                /\ alertasContables'[1].sugerencias =
                      detect(wire[1].body.company, wire[1].body.movements, rules).sugerencias
                /\ alertasContables'[1].correcciones =
                      detect(wire[1].body.company, wire[1].body.movements, rules).correcciones
                /\ alertasContables'[1].transactionData = submitData[1]
                /\ loading' = FALSE]_vars

\* The dialog is open on alerts and a correction plan, with no request in flight.
C2_Witness ==
    /\ alertasContables # Null
    /\ alertasContables[1].alertas # {}
    /\ alertasContables[1].correcciones # {}
    /\ wire = Null
    /\ ~loading

\* C3: a submission on which validateTransaction fails ends there: a validate
\* request is only ever sent for a form the validator accepts, and the step
\* that shows the rejection message sends no request, persists nothing and
\* changes neither the form nor the dialog.
C3_RejectedSendsNothing ==
    [][/\ (wire = Null /\ wire' # Null) =>
             validateTransaction(transactionForm, objs).isValid
       /\ (notification' \in RejectMessages /\ notification' # notification) =>
             /\ ~validateTransaction(transactionForm, objs).isValid
             /\ wire = Null
             /\ UNCHANGED <<wire, submitData, loading, store, transactions, forceReqs,
                            alertasContables, transactionForm, objs>>]_vars

\* A submission was rejected for a missing required field; nothing is in flight.
C3_Witness ==
    /\ notification = "camposObligatorios"
    /\ ~validateTransaction(transactionForm, objs).isValid
    /\ wire = Null
    /\ ~loading

\* C4: accepting the auto-correction persists nothing, and no persisted
\* transaction that carries a corrected movement is unbalanced.
C4_NoUnbalancedCorrectionPersisted ==
    \A t \in DOMAIN store :
        (\E j \in DOMAIN store[t].movements : store[t].movements[j].fixed) =>
            Difference(store[t].movements) < 1

\* A step of onAutoFix: the dialog closes with the "corrected" notification.
AutoFixStep ==
    alertasContables # Null /\ alertasContables' = Null /\ notification' = "corrected"

\* C5: onAutoFix never changes the orientation of a line: a debit-only line of
\* the form has credit = 0 afterwards and a credit-only line has debit = 0.
C5_AutoFixKeepsOrientation ==
    [][AutoFixStep =>
          \A id \in Range(transactionForm.movements) :
              /\ (objs[id].debit # 0 /\ objs[id].credit = 0) => objs'[id].credit = 0
              /\ (objs[id].credit # 0 /\ objs[id].debit = 0) => objs'[id].debit = 0]_vars

\* C6: while the dialog offers the correction plan, the movement_index of each
\* correction designates in the form the very movement it designates in the
\* payload that was validated.
C6_CorrectionHitsItsMovement ==
    alertasContables # Null =>
        \A c \in alertasContables[1].correcciones :
            /\ c.movement_index + 1 \in DOMAIN transactionForm.movements
            /\ transactionForm.movements[c.movement_index + 1] =
                  alertasContables[1].transactionData.movements[c.movement_index + 1]

\* C7: force-save sends exactly the payload the alerts were raised for and
\* sends no validate request; when its request succeeds the transaction sent is
\* persisted, the dialog is cleared and the form reset; when it fails the dialog
\* is kept.
C7_ForceSavePersistsAlertedPayload ==
    [][/\ Len(forceReqs') > Len(forceReqs) =>
             /\ forceReqs'[Len(forceReqs')] = alertasContables[1].validated
             /\ UNCHANGED <<wire, store, alertasContables>>
       /\ (Len(forceReqs') < Len(forceReqs) /\ store' # store) =>
             /\ alertasContables' = Null
             /\ transactionForm'.company = "" /\ transactionForm'.concept = ""
             /\ \A id \in Range(transactionForm'.movements) : objs'[id] = EmptyMovement
       /\ (Len(forceReqs') < Len(forceReqs) /\ store' = store) =>
             UNCHANGED alertasContables]_vars

\* C8: a submission that raises no alert sends one persist request, and its
\* success appends exactly one transaction to the store, whatever the store
\* already holds (no deduplication), and puts it first in the local list.
C8_OnePersistedPerCleanSubmission ==
    [][/\ (ValidateAnswered /\ AlertsOnWire = {}) =>
             \/ wire' # Null /\ wire'[1].kind = "persist" /\ UNCHANGED <<store, transactions>>
             \/ wire' = Null /\ notification' = "error" /\ UNCHANGED <<store, transactions>>
       /\ PersistAnswered =>
             /\ wire' = Null
             /\ \/ /\ store' = Append(store, wire[1].body)
                   /\ transactions' = <<Len(store')>> \o transactions
                \/ notification' = "error" /\ UNCHANGED <<store, transactions>>]_vars

\* The same content was saved twice: the store holds two equal transactions.
C8_Witness ==
    /\ Len(store) = 2
    /\ store[1] = store[2]
    /\ transactions = <<2, 1>>
    /\ notification = "saved"

BothSides(m) == m.debit # 0 /\ m.credit # 0

\* C9: no movement has both a nonzero debit and a nonzero credit: not in the
\* entry form, not in the movement-edit dialog, not in a payload sent or stored.
C9_NoMovementOnBothSides ==
    /\ \A id \in DOMAIN objs : ~BothSides(objs[id])
    /\ editingMovement # Null => ~BothSides(editingMovement[1])
    /\ wire # Null =>
          \A j \in DOMAIN wire[1].body.movements : ~BothSides(wire[1].body.movements[j])
    /\ \A r \in DOMAIN forceReqs :
          \A j \in DOMAIN forceReqs[r].movements : ~BothSides(forceReqs[r].movements[j])
    /\ \A t \in DOMAIN store :
          \A j \in DOMAIN store[t].movements : ~BothSides(store[t].movements[j])

\* C10: every payload sent to validation or to persistence has at least 2
\* movements.
C10_PayloadHasTwoMovements ==
    /\ wire # Null => Len(wire[1].body.movements) >= 2
    /\ \A r \in DOMAIN forceReqs : Len(forceReqs[r].movements) >= 2

(* ------------- validateTransaction on a given list of movements ------- *)
\* Lists of movements handed to the validator: one to three lines, balanced or
\* not, with or without their account. (The buttons of the entry form keep at
\* least two lines; the validator is written for any list.)
ValidateLengths == {1, 2, 3}
ValidateLineKinds ==
    {ZeroLine, DebitLine, CreditLine,
     [DebitLine EXCEPT !.debit = 2],
     [CreditLine EXCEPT !.account = ""]}

InitValidate ==
    /\ \E n \in ValidateLengths : \E ls \in [1..n -> ValidateLineKinds] :
          /\ objs = ls
          /\ transactionForm = [company |-> "C1", concept |-> "x",
                                movements |-> [i \in 1..n |-> i]]
    /\ loading = FALSE
    /\ submitData = Null
    /\ wire = Null
    /\ alertasContables = Null
    /\ forceReqs = <<>>
    /\ store = <<>>
    /\ transactions = <<>>
    /\ rules = {}
    /\ notification = "none"
    /\ edits = 0
    /\ editingMovement = Null
    /\ editReqs = <<>>
    /\ sequential = rules
    /\ dialogSent = FALSE
    /\ formData = FormDataAtRest
    /\ context = ContextAtRest
    /\ hook = HookAtRest
    /\ transactionList = ListAtRest

\* const validation = validateTransaction();
\* if (!validation.isValid) { showNotification(validation.message, 'error'); return; }
runValidateTransaction ==
    /\ notification = "none"
    /\ LET validation == validateTransaction(transactionForm, objs)
       IN  notification' = IF Rejects(validation) THEN validation.message ELSE "accepted"
    /\ UNCHANGED <<transactionForm, objs, loading, submitData, wire, alertasContables,
                   forceReqs, store, transactions, rules, edits, editingMovement>>
    /\ UNCHANGED <<editReqs, sequential, dialogSent, ui>>

\* The validator alone, applied once to each list.
SpecValidate == InitValidate /\ [][runValidateTransaction]_vars

Accepted(i) ==
    /\ i \in 1..Len(editReqs)
    /\ editReqs[i].session = "own"
    /\ editReqs' = RemoveAt(editReqs, i)
    /\ notification' = "edited"

RuleBefore(i) == RuleFor(rules, editReqs[i].company, editReqs[i].third_party)
RuleAfter(i) == RuleFor(rules', editReqs[i].company, editReqs[i].third_party)

\* C12: an accepted edit whose account is the account of the rule stored for
\* its key leaves a rule with the same account, the confidence c + 1 and the
\* average a + (x - a)/(c + 1), for the confidence c and average a stored and
\* the edited amount x.
C12_ConfirmationAveragesIn ==
    [][\A i \in 1..MaxInFlight :
          (Accepted(i) /\ RuleBefore(i) # Null /\ RuleBefore(i)[1].account = editReqs[i].account)
          => /\ RuleAfter(i) # Null
             /\ LET c == RuleBefore(i)[1].confidence
                    a == RuleBefore(i)[1].average
                    b == RuleAfter(i)[1].average
                    x == Amount(editReqs[i])
                IN  /\ RuleAfter(i)[1].account = RuleBefore(i)[1].account
                    /\ RuleAfter(i)[1].confidence = c + 1
                    /\ b.den > 0
                    /\ b.num * a.den * (c + 1)
                         = b.den * (a.num * (c + 1) + (x * a.den - a.num))]_vars

\* The user rule on A1 with average 0.03 was confirmed with the amount 0.02.
C12_Witness ==
    /\ notification = "edited"
    /\ \E r \in rules : /\ r.account = "A1" /\ r.createdByUser
                        /\ r.confidence = 2 /\ r.average = [num |-> 5, den |-> 2]

\* C13: an accepted edit whose account differs from the account of the rule
\* stored for its key leaves a rule with the edited account, the confidence 1
\* and the edited amount as its average.
C13_OverrideStartsAgain ==
    [][\A i \in 1..MaxInFlight :
          (Accepted(i) /\ RuleBefore(i) # Null /\ RuleBefore(i)[1].account # editReqs[i].account)
          => /\ RuleAfter(i) # Null
             /\ RuleAfter(i)[1].account = editReqs[i].account
             /\ RuleAfter(i)[1].confidence = 1
             /\ RuleAfter(i)[1].average = [num |-> Amount(editReqs[i]), den |-> 1]]_vars

\* The inferred rule on A2 was overridden by an edit to A1 of amount 0.01.
C13_Witness ==
    /\ notification = "edited"
    /\ \E r \in rules : /\ r.account = "A1" /\ ~r.createdByUser
                        /\ r.confidence = 1 /\ r.average = [num |-> 1, den |-> 1]

\* C14 (as claimed): no accepted edit, confirming or contradicting, lowers the
\* confidence of the rule stored for its key.
C14_ConfidenceNeverDecreases ==
    [][\A i \in 1..MaxInFlight :
          (Accepted(i) /\ RuleBefore(i) # Null /\ RuleAfter(i) # Null)
          => RuleAfter(i)[1].confidence >= RuleBefore(i)[1].confidence]_vars

\* C14 (amended): an accepted edit lowers the confidence of the rule stored for
\* its key only when its account differs from the rule's, and then to 1; an edit
\* to the rule's own account never lowers it.
C14_ConfidenceDecreasesOnlyOnOverride ==
    [][\A i \in 1..MaxInFlight :
          (Accepted(i) /\ RuleBefore(i) # Null)
          => /\ RuleAfter(i) # Null
             /\ (RuleAfter(i)[1].confidence < RuleBefore(i)[1].confidence
                   => /\ RuleBefore(i)[1].account # editReqs[i].account
                      /\ RuleAfter(i)[1].confidence = 1)]_vars

\* The inferred rule of confidence 2 was overridden by an edit of amount 0.02.
C14_Witness ==
    /\ notification = "edited"
    /\ editReqs = <<>>
    /\ \E r \in rules : /\ r.account = "A1" /\ ~r.createdByUser
                        /\ r.confidence = 1 /\ r.average = [num |-> 2, den |-> 1]

\* C15: an accepted edit for a key with no rule leaves exactly one rule for the
\* key, with the edited account, confidence 1, the edited amount as average and
\* createdByUser true; and no state holds two rules for one key.
C15_OneRulePerKey ==
    /\ [](\A k \in RuleKeys : Cardinality(RulesOf(rules, k[1], k[2])) <= 1)
    /\ [][\A i \in 1..MaxInFlight :
            (Accepted(i) /\ RuleBefore(i) = Null)
            => RulesOf(rules', editReqs[i].company, editReqs[i].third_party)
                 = {[company |-> editReqs[i].company,
                     third_party |-> editReqs[i].third_party,
                     account |-> editReqs[i].account,
                     confidence |-> 1,
                     average |-> [num |-> Amount(editReqs[i]), den |-> 1],
                     createdByUser |-> TRUE]}]_vars

\* The first rule of an empty store was created, and confirmed once since.
C15_Witness ==
    /\ notification = "edited"
    /\ rules = {Rule("C1", "T1", "A2", 2, FromCents(2))}
    /\ store[1].movements[1].account = "A2"

\* The step belongs to the submission pipeline: it moves the payload, the
\* request in flight, the dialog, the force-save requests or the number of
\* persisted transactions.
PipelineMoves ==
    \/ <<submitData, wire, alertasContables, forceReqs>>' # <<submitData, wire, alertasContables, forceReqs>>
    \/ Len(store') # Len(store)

\* The step answers an edit request.
EditAnswered == \E i \in 1..Len(editReqs) : editReqs' = RemoveAt(editReqs, i)

\* The step deletes the rules of one key, on the user's request.
RuleDeleted ==
    /\ notification' = "ruleDeleted"
    /\ \E k \in RuleKeys : /\ RulesOf(rules, k[1], k[2]) # {}
                           /\ rules' = rules \ RulesOf(rules, k[1], k[2])

Recorded(i) ==
    /\ i \in 1..Len(editReqs)
    /\ editReqs' = RemoveAt(editReqs, i)
    /\ rules' # rules

\* Request i arrived before a write to the rule of its key that is now stored.
Overtaken(i) == editReqs[i].seen # RuleBefore(i)

DetectAmounts == {1, 2, 3, 5, 8, 9, 21000, 50000}
DetectAccounts == {"A1", "A2"}
DetectThirdParties == {"T1", "T2"}
DetectAverages == {FromCents(0), FromCents(4), Rat(5, 2), FromCents(20000)}

\* The server holds no rule, or one rule for T1; T2 never has a rule.
DetectRuleStores == {{}} \cup {{Rule("C1", "T1", "A1", 2, q)} : q \in DetectAverages}

\* A balanced transaction of two lines is ready in the form.
InitDetect ==
    /\ \E x \in DetectAmounts, a \in DetectAccounts, tp1 \in DetectThirdParties,
          tp2 \in DetectThirdParties :
          objs = << [EmptyMovement EXCEPT !.account = a, !.third_party = tp1, !.debit = x],
                    [EmptyMovement EXCEPT !.account = "A1", !.third_party = tp2, !.credit = x] >>
    /\ transactionForm = [company |-> "C1", concept |-> "x", movements |-> <<1, 2>>]
    /\ loading = FALSE
    /\ submitData = Null
    /\ wire = Null
    /\ alertasContables = Null
    /\ forceReqs = <<>>
    /\ store = <<>>
    /\ transactions = <<>>
    /\ rules \in DetectRuleStores
    /\ notification = "none"
    /\ edits = 0
    /\ editingMovement = Null
    /\ editReqs = <<>>
    /\ sequential = rules
    /\ dialogSent = FALSE
    /\ formData = FormDataAtRest
    /\ context = ContextAtRest
    /\ hook = HookAtRest
    /\ transactionList = ListAtRest

NextDetect ==
    \/ handleSubmitTransaction
    \/ \E ok \in BOOLEAN : validateResponse(ok)
    \/ \E ok \in BOOLEAN : persistResponse(ok)
    \/ onCancel

\* The submit pipeline on prepared transactions, up to the dialog or the save.
SpecDetect == InitDetect /\ [][NextDetect]_vars

\* The body of the validate request in flight, and the rule of its movement i.
OnWire == wire # Null /\ wire[1].kind = "validate"
WireMovements == wire[1].body.movements
WireRule(i) == RuleFor(rules, wire[1].body.company, WireMovements[i].third_party)
Alerted(i, kind) == [movement_index |-> i - 1, kind |-> kind] \in AlertsOnWire
CorrectionsOnWire ==
    detect(wire[1].body.company, WireMovements, rules).correcciones

\* C16: the detector raises no alert and no correction on a movement whose
\* (company, third party) has no rule, and the answer to the validation of a
\* transaction whose movements all lack rules opens no dialog: the persist
\* request is sent (or the validate request itself failed).
C16_NoRuleNoAlert ==
    /\ [](OnWire =>
            \A i \in 1..Len(WireMovements) :
               WireRule(i) = Null =>
                  /\ \A al \in AlertsOnWire : al.movement_index # i - 1
                  /\ \A co \in CorrectionsOnWire : co.movement_index # i - 1)
    /\ [][(ValidateAnswered /\ \A i \in 1..Len(WireMovements) : WireRule(i) = Null)
            => /\ alertasContables' = Null
               /\ \/ wire' # Null /\ wire'[1].kind = "persist"
                  \/ notification' = "error"]_vars

\* The server holds a rule for T1, and a transaction on T2 alone is on its way
\* to be saved.
C16_Witness ==
    /\ rules # {}
    /\ wire # Null
    /\ wire[1].kind = "persist"
    /\ \A i \in 1..Len(wire[1].body.movements) :
          RuleFor(rules, wire[1].body.company, wire[1].body.movements[i].third_party) = Null

\* C17: on a movement that has a rule, the detector raises AccountMismatch if
\* and only if the movement's account differs from the rule's, and then raises
\* no AmountAnomaly on it.
C17_MismatchIffAccountDiffers ==
    OnWire =>
       \A i \in 1..Len(WireMovements) :
          WireRule(i) # Null =>
             /\ Alerted(i, "AccountMismatch")
                   <=> WireMovements[i].account # WireRule(i)[1].account
             /\ WireMovements[i].account # WireRule(i)[1].account
                   => ~Alerted(i, "AmountAnomaly")

\* The dialog shows a mismatch alone on a movement whose amount is more than
\* double the average of its rule.
C17_Witness ==
    /\ alertasContables # Null
    /\ [movement_index |-> 0, kind |-> "AccountMismatch"] \in alertasContables[1].alertas
    /\ [movement_index |-> 0, kind |-> "AmountAnomaly"] \notin alertasContables[1].alertas
    /\ alertasContables[1].validated.movements[1].debit = 9
    /\ rules = {Rule("C1", "T1", "A1", 2, FromCents(4))}

\* C18: on a movement whose account is its rule's, the detector raises
\* AmountAnomaly if and only if the rule's average is not zero and the amount
\* is less than half or more than double the average; against the average
\* 200.00 the amount 210.00 raises none and 500.00 raises one.
C18_AnomalyIffOutsideHalfDouble ==
    OnWire =>
       \A i \in 1..Len(WireMovements) :
          (WireRule(i) # Null /\ WireMovements[i].account = WireRule(i)[1].account) =>
             LET avg == WireRule(i)[1].average
                 x == Amount(WireMovements[i])
             IN  /\ Alerted(i, "AmountAnomaly")
                       <=> /\ avg.num # 0
                           /\ \/ 2 * x * avg.den < avg.num
                              \/ x * avg.den > 2 * avg.num
                 /\ (avg = [num |-> 20000, den |-> 1] /\ x = 21000)
                       => ~Alerted(i, "AmountAnomaly")
                 /\ (avg = [num |-> 20000, den |-> 1] /\ x = 50000)
                       => Alerted(i, "AmountAnomaly")
                 /\ avg.num = 0 => ~Alerted(i, "AmountAnomaly")

\* The dialog shows the anomaly of 500.00 against the average 200.00.
C18_Witness ==
    /\ alertasContables # Null
    /\ [movement_index |-> 0, kind |-> "AmountAnomaly"] \in alertasContables[1].alertas
    /\ alertasContables[1].validated.movements[1].debit = 50000
    /\ rules = {Rule("C1", "T1", "A1", 2, FromCents(20000))}

(* ----------------------- the persisted transactions -------------------- *)
\* C21: a transaction is persisted with all of its movements at once, and
\* every persisted transaction has sum(debit) = sum(credit) within 0.01.
C21_PersistedBalanced ==
    \A t \in DOMAIN store : Difference(store[t].movements) <= 1

(* --------------------------- failed requests -------------------------- *)
\* The dialog the answer of the validate request in flight opens when it
\* carries alerts.
DialogOnWire ==
    [alertas |-> AlertsOnWire,
     sugerencias |-> detect(wire[1].body.company, wire[1].body.movements, rules).sugerencias,
     correcciones |-> CorrectionsOnWire,
     transactionData |-> submitData[1],
     validated |-> wire[1].body]

\* The validate request in flight is answered with a failure: the handler
\* neither sends the persist request nor opens the dialog of that request.
ValidateFailed ==
    /\ ValidateAnswered
    /\ wire' = Null
    /\ ~(AlertsOnWire # {} /\ alertasContables' = Some(DialogOnWire))

\* The persist request in flight is answered with a failure: nothing is saved.
PersistFailed == PersistAnswered /\ store' = store

\* The step shows the error, sends nothing, and leaves the list and the form.
ErrorOutcome ==
    /\ notification' = "error"
    /\ wire' = Null
    /\ loading' = FALSE
    /\ UNCHANGED <<forceReqs, store, transactions, transactionForm, alertasContables>>
    /\ \A id \in Range(transactionForm.movements) : objs'[id] = objs[id]

\* C22: when the validate or the persist request fails, the handler shows the
\* error, sends no further request, adds nothing to the local list and leaves
\* the form as it is.
C22_FailureReportedFormKept ==
    [][(ValidateFailed \/ PersistFailed) => ErrorOutcome]_vars

\* A submission failed: the error is shown over a form that still holds its
\* header and amounts, and nothing was saved.
C22_Witness ==
    /\ notification = "error"
    /\ wire = Null
    /\ ~loading
    /\ store = <<>>
    /\ transactionForm.company = "C1"
    /\ \E id \in Range(transactionForm.movements) : objs[id].debit > 0

(* ------------------------------ the discard --------------------------- *)
\* A step of onCancel: the dialog closes with the "not saved" notification.
DiscardStep ==
    alertasContables # Null /\ alertasContables' = Null /\ notification' = "discarded"

\* C23: discarding from the dialog persists nothing and sends nothing, closes
\* the dialog, and leaves the company, the concept and the movements of the
\* form as they are.
C23_DiscardKeepsForm ==
    [][DiscardStep =>
          /\ UNCHANGED <<store, transactions, wire, forceReqs, transactionForm>>
          /\ \A id \in Range(transactionForm.movements) : objs'[id] = objs[id]]_vars

\* The dialog was discarded over a form that still holds what was submitted.
C23_Witness ==
    /\ notification = "discarded"
    /\ alertasContables = Null
    /\ forceReqs = <<>>
    /\ transactionForm.company = "C1"
    /\ \E id \in Range(transactionForm.movements) : objs[id].debit > 0

(* ------------------------- the force-save, twice ---------------------- *)
\* Clicks of "Entiendo, Continuar" that may be awaiting their answer at once.
MaxClicks == 2

NextDialog ==
    \/ handleSubmitTransaction
    \/ \E ok \in BOOLEAN : validateResponse(ok)
    \/ \E ok \in BOOLEAN : persistResponse(ok)
    \/ onAutoFix
    \/ (Len(forceReqs) < MaxClicks /\ onConfirm)
    \/ \E i \in 1..MaxClicks, ok \in BOOLEAN : forceResponse(i, ok)
    \/ onCancel

\* The submit pipeline and its dialog, the button clicked as often as it is shown.
SpecDialog == InitLearn /\ [][NextDialog]_vars

\* C29: a dialog sends its persist request at most once, and a force-save
\* persists only while the dialog it was sent from is still awaiting the decision.
C29_OneSendPerDialog ==
    [][/\ Len(forceReqs') > Len(forceReqs) => ~dialogSent
       /\ (Len(forceReqs') < Len(forceReqs) /\ Len(store') > Len(store))
             => alertasContables # Null]_vars

(* --------------------- TransactionForm: the lines --------------------- *)
\* Everything the page component of the pipeline holds.
page ==
    <<transactionForm, objs, loading, submitData, wire, alertasContables, forceReqs,
      store, transactions, rules, notification, edits, editingMovement, editReqs,
      sequential, dialogSent>>

\* Lines one form instance may ever be given by "Agregar".
MaxAdds == 3

\* movements.filter((_, i) => i !== index), index counted from 1.
FilterIndex(movements, index) ==
    [k \in 1..(Len(movements) - (IF index \in 1..Len(movements) THEN 1 ELSE 0)) |->
        IF k < index THEN movements[k] ELSE movements[k + 1]]

\* addMovement: a functional update appending an empty line.
TransactionForm_addMovement ==
    /\ Len(formData.movements) < MaxLines
    /\ formData.next <= 2 + MaxAdds
    /\ formData' = [formData EXCEPT !.movements = Append(@, formData.next),
                                    !.next = @ + 1]
    /\ UNCHANGED <<page, context, hook, transactionList>>

\* removeMovement(index) of the last render: the guard reads the length that
\* render saw, the functional update filters the state current at the update.
TransactionForm_removeMovement(index) ==
    /\ index \in 1..Len(formData.rendered)
    /\ ~(Len(formData.rendered) <= 2)
    /\ formData' = [formData EXCEPT !.movements = FilterIndex(@, index)]
    /\ UNCHANGED <<page, context, hook, transactionList>>

\* React renders the form again after a state update.
TransactionForm_render ==
    /\ formData.rendered # formData.movements
    /\ formData' = [formData EXCEPT !.rendered = formData.movements]
    /\ UNCHANGED <<page, context, hook, transactionList>>

NextLines ==
    \/ TransactionForm_addMovement
    \/ \E index \in 1..MaxLines : TransactionForm_removeMovement(index)
    \/ TransactionForm_render

\* The line buttons of one TransactionForm, renders in between or not.
SpecLines == InitLearn /\ [][NextLines]_vars

\* C24: whatever sequence of add-line and remove-line the form is given, two
\* removals before a render included, it holds at least two lines.
C24_AtLeastTwoLines == Len(formData.movements) >= 2

(* ------------------------- useNotification ---------------------------- *)
\* Notifications one hook instance is asked to show.
MaxShown == 4

NotificationTypes == {"success", "error", "info", "warning"}
TimeoutInputs == {0, 3000}

\* A show that leaves the running timer alone.
KeepTimeout(timers, ref) == timers

\* if (timeoutRef.current) clearTimeout(timeoutRef.current): clearing a timer
\* that has fired already does nothing.
clearTimeout(timers, ref) ==
    IF ref = Null THEN timers ELSE {t \in timers : t.id # ref[1]}

\* The hook h after showNotification(message, type, timeout).
Shown(h, type, timeout) ==
    LET n == h.shown + 1
        cleared == clearTimeout(h.timers, h.timeoutRef)
    IN  [notification |-> Some([n |-> n, type |-> type]),
         timers |-> IF timeout > 0 THEN cleared \cup {[id |-> n, for |-> n]}
                                   ELSE cleared,
         timeoutRef |-> IF timeout > 0 THEN Some(n) ELSE h.timeoutRef,
         shown |-> n,
         cancelled |-> h.cancelled + Cardinality(h.timers) - Cardinality(cleared)]

\* clearNotification()
Hook_clearNotification ==
    /\ hook.notification # Null \/ hook.timers # {}
    /\ hook' = [hook EXCEPT
                  !.timers = clearTimeout(hook.timers, hook.timeoutRef),
                  !.cancelled = @ + Cardinality(hook.timers)
                                  - Cardinality(clearTimeout(hook.timers, hook.timeoutRef)),
                  !.notification = Null]
    /\ UNCHANGED <<page, formData, context, transactionList>>

\* showNotification(message, type, timeout): the n-th notification of the hook;
\* its timer, when it gets one, is timer n and is kept in timeoutRef.
Hook_showNotification(type, timeout) ==
    /\ hook.shown < MaxShown
    /\ hook' = Shown(hook, type, timeout)
    /\ UNCHANGED <<page, formData, context, transactionList>>

\* The callback of a pending timer: setNotification(null).
Hook_timeout(t) ==
    /\ t \in hook.timers
    /\ hook' = [hook EXCEPT !.timers = @ \ {t}, !.notification = Null]
    /\ UNCHANGED <<page, formData, context, transactionList>>

NextHook ==
    \/ \E type \in NotificationTypes, timeout \in TimeoutInputs :
          Hook_showNotification(type, timeout)
    \/ Hook_clearNotification
    \/ \E n \in 1..MaxShown : Hook_timeout([id |-> n, for |-> n])

\* One useNotification instance and its timers.
SpecHook == InitLearn /\ [][NextHook]_vars

\* C27: at most one dismissal timer of the hook is pending, and a pending
\* timer is the one started for the notification now shown, so that no
\* notification is dismissed by the timer of an earlier one.
C27_OneTimerOfShown ==
    /\ Cardinality(hook.timers) <= 1
    /\ \A t \in hook.timers :
          hook.notification # Null /\ hook.notification[1].n = t.for

\* A second notification is shown with its own timer pending, the timer of the
\* first having been cancelled while it was pending.
C27_Witness ==
    /\ hook.cancelled >= 1
    /\ hook.notification # Null
    /\ hook.notification[1].n >= 2
    /\ hook.timers = {[id |-> hook.notification[1].n, for |-> hook.notification[1].n]}

(* -------------------- TransactionList: the delete --------------------- *)
\* Times the confirmation of one list instance is armed.
MaxArmed == 3

\* handleDelete(transaction): the click on the delete button of a listed
\* transaction. Armed for it: deleteTransaction is called and awaited. Otherwise
\* the confirmation is armed for it and a 3-second timer is started; `armed`
\* numbers the armings and each timer carries the number of its arming.
List_handleDelete(id) ==
    /\ id \in transactionList.listed
    /\ IF transactionList.deleteConfirm = Some(id)
       THEN /\ Len(transactionList.deletes) < MaxInFlight
            /\ transactionList' =
                  [transactionList EXCEPT !.deletes = Append(@, id)]
       ELSE /\ transactionList.armed < MaxArmed
            /\ transactionList' =
                  [transactionList EXCEPT
                     !.deleteConfirm = Some(id),
                     !.armed = @ + 1,
                     !.timers = @ \cup {transactionList.armed + 1}]
    /\ UNCHANGED <<page, formData, context, hook>>

\* handleDelete after the await: deleteTransaction resolves, deleted or not,
\* and setDeleteConfirm(null) runs.
List_deleteDone(i, ok) ==
    /\ i \in 1..Len(transactionList.deletes)
    /\ transactionList' =
          [transactionList EXCEPT
             !.deletes = RemoveAt(@, i),
             !.listed = IF ok THEN @ \ {transactionList.deletes[i]} ELSE @,
             !.deleteConfirm = Null]
    /\ UNCHANGED <<page, formData, context, hook>>

\* "Cancelar" of the confirmation banner.
List_cancel ==
    /\ transactionList.deleteConfirm # Null
    /\ transactionList' = [transactionList EXCEPT !.deleteConfirm = Null]
    /\ UNCHANGED <<page, formData, context, hook>>

\* The callback of the timer started by arming n: setDeleteConfirm(null).
List_timeout(n) ==
    /\ n \in transactionList.timers
    /\ transactionList' =
          [transactionList EXCEPT !.timers = @ \ {n}, !.deleteConfirm = Null]
    /\ UNCHANGED <<page, formData, context, hook>>

NextList ==
    \/ \E id \in 1..2 : List_handleDelete(id)
    \/ \E i \in 1..MaxInFlight, ok \in BOOLEAN : List_deleteDone(i, ok)
    \/ List_cancel
    \/ \E n \in 1..MaxArmed : List_timeout(n)

\* One TransactionList, its confirmation and its timers.
SpecList == InitLearn /\ [][NextList]_vars

\* deleteTransaction(id) is called in this step.
DeleteCalled(id) ==
    transactionList'.deletes = Append(transactionList.deletes, id)

\* The armed confirmation is gone after this step.
Disarmed ==
    transactionList.deleteConfirm # Null /\ transactionList'.deleteConfirm = Null

\* C28: deleteTransaction(id) is called only while the confirmation is armed for
\* id, arming never deletes, and an armed confirmation is disarmed only by
\* Cancel, by the delete of the armed transaction, or by the timer started when
\* it was armed.
C28_ArmedDeleteOnly ==
    [][/\ \A id \in 1..2 :
             DeleteCalled(id) => transactionList.deleteConfirm = Some(id)
       /\ transactionList'.armed > transactionList.armed
             => transactionList'.deletes = transactionList.deletes
       /\ Disarmed =>
             /\ transactionList'.timers # transactionList.timers
                   => transactionList.timers \ transactionList'.timers
                         = {transactionList.armed}
             /\ transactionList'.deletes # transactionList.deletes
                   => \E i \in 1..Len(transactionList.deletes) :
                         /\ transactionList'.deletes = RemoveAt(transactionList.deletes, i)
                         /\ transactionList.deletes[i] = transactionList.deleteConfirm[1]
      ]_vars

(* ----------------------------- AppContext ----------------------------- *)
\* Logins of one page load.
MaxSessions == 2

\* The companies the server lists, the first one first.
Companies == <<"C1", "C2">>

\* A loadInitialData that looks at the flag only.
FlagOnly(c) == c.initialDataLoaded

\* if (loadingRef.current || initialDataLoaded) return;
AlreadyLoading(c) == c.loadingRef \/ c.initialDataLoaded

\* The effect on [isAuthenticated, initialDataLoaded, loadInitialData] and the
\* loadInitialData it calls, up to the await: the batch carries its session.
AfterAuthEffect(c) ==
    IF c.isAuthenticated /\ ~c.initialDataLoaded /\ ~AlreadyLoading(c)
    THEN [c EXCEPT !.loadingRef = TRUE, !.batches = Append(@, c.session)]
    ELSE c

\* loadTransactions(filters, companyId) up to the await.
AfterLoadTransactions(c, companyId) ==
    LET company == IF companyId # Null THEN companyId ELSE c.selectedCompany
    IN  IF company = Null THEN c ELSE [c EXCEPT !.loads = Append(@, company[1])]

\* The effect on [selectedCompany], run when `was` is no longer the selection:
\* refreshCompanyData(selectedCompany), of which the transaction load is kept.
AfterCompanyEffect(c, was) ==
    IF c.selectedCompany # was /\ c.initialDataLoaded /\ c.selectedCompany # Null
    THEN AfterLoadTransactions(c, c.selectedCompany)
    ELSE c

\* useAuth.login after its await: the token is set, the effects run.
Context_login ==
    /\ ~context.isAuthenticated
    /\ context.session < MaxSessions
    /\ context' = AfterAuthEffect([context EXCEPT !.isAuthenticated = TRUE,
                                                  !.session = @ + 1])
    /\ UNCHANGED <<page, formData, hook, transactionList>>

\* useAuth.logout and the reset effect on [isAuthenticated].
Context_logout ==
    /\ context.isAuthenticated
    /\ context' = [context EXCEPT !.isAuthenticated = FALSE,
                                  !.companies = Null,
                                  !.transactions = Null,
                                  !.selectedCompany = Null,
                                  !.initialDataLoaded = FALSE,
                                  !.succeeded = FALSE,
                                  !.failed = FALSE]
    /\ UNCHANGED <<page, formData, hook, transactionList>>

\* loadInitialData after the await, batch i answered; the effects follow the
\* state it sets.
Context_initialDataResponse(i, ok) ==
    /\ i \in 1..Len(context.batches)
    /\ ok => Len(context.loads) < MaxInFlight
    /\ ~ok => hook.shown < MaxShown
    /\ context' =
          IF ok
          THEN AfterCompanyEffect(
                  AfterAuthEffect(
                     [context EXCEPT !.batches = RemoveAt(@, i),
                                     !.companies = Some(context.batches[i]),
                                     !.selectedCompany = Some(Companies[1]),
                                     !.initialDataLoaded = TRUE,
                                     !.succeeded = TRUE,
                                     !.loadingRef = FALSE]),
                  context.selectedCompany)
          ELSE [context EXCEPT !.batches = RemoveAt(@, i), !.loadingRef = FALSE]
    /\ hook' = IF ok THEN hook ELSE Shown(hook, "error", 5000)
    /\ UNCHANGED <<page, formData, transactionList>>

\* The company selector of the header: setSelectedCompany(id) and the effect.
Context_setSelectedCompany(id) ==
    /\ context.isAuthenticated
    /\ context.companies # Null
    /\ context.selectedCompany # Some(id)
    /\ Len(context.loads) < MaxInFlight
    /\ context' = AfterCompanyEffect([context EXCEPT !.selectedCompany = Some(id)],
                                     context.selectedCompany)
    /\ UNCHANGED <<page, formData, hook, transactionList>>

\* loadTransactions({page}) of the list's pager.
Context_loadTransactions ==
    /\ context.isAuthenticated
    /\ context.selectedCompany # Null
    /\ Len(context.loads) < MaxInFlight
    /\ context' = AfterLoadTransactions(context, Null)
    /\ UNCHANGED <<page, formData, hook, transactionList>>

\* loadTransactions after the await, load i answered.
Context_transactionsResponse(i, ok) ==
    /\ i \in 1..Len(context.loads)
    /\ ~ok => hook.shown < MaxShown
    /\ context' = [context EXCEPT
                     !.loads = RemoveAt(@, i),
                     !.transactions = IF ok THEN Some(context.loads[i]) ELSE @,
                     !.failed = @ \/ ~ok]
    /\ hook' = IF ok THEN hook ELSE Shown(hook, "error", 5000)
    /\ UNCHANGED <<page, formData, transactionList>>

NextContext ==
    \/ Context_login
    \/ Context_logout
    \/ \E i \in 1..MaxSessions, ok \in BOOLEAN : Context_initialDataResponse(i, ok)
    \/ \E id \in Range(Companies) : Context_setSelectedCompany(id)
    \/ Context_loadTransactions
    \/ \E i \in 1..MaxInFlight, ok \in BOOLEAN : Context_transactionsResponse(i, ok)

\* One AppProvider: sessions, the selector, the loads and their answers.
SpecContext == InitLearn /\ [][NextContext]_vars

\* C25: at most one batch of loadInitialData is awaited at any time, and
\* none is started after one has succeeded, until the user logs out.
C25_InitialDataOnce ==
    [][/\ Len(context'.batches) <= 1
       /\ Len(context'.batches) > Len(context.batches) => ~context.succeeded]_vars

\* The user logged out and in again while the batch of the first session is
\* still awaited: the second login started none.
C25_Witness ==
    /\ context.isAuthenticated
    /\ context.session = 2
    /\ context.batches = <<1>>
    /\ context.loadingRef

\* C26: while the user is not authenticated the data of the context, the
\* selected company and the initial-data-loaded flag are reset, whatever load
\* was awaited at logout.
C26_ResetWhileLoggedOut ==
    ~context.isAuthenticated =>
        /\ context.companies = Null
        /\ context.transactions = Null
        /\ context.selectedCompany = Null
        /\ ~context.initialDataLoaded

\* C30: once no transaction load is awaited, none having failed, the list of
\* the context is the one returned for the selected company.
C30_ListOfSelectedCompany ==
    (/\ context.isAuthenticated
     /\ context.initialDataLoaded
     /\ context.selectedCompany # Null
     /\ context.loads = <<>>
     /\ ~context.failed)
        => context.transactions = context.selectedCompany

====
